---- MODULE Spec2Model ----
(***************************************************************************)
(* Model of the PDF autotagging command line (src/src/main.py) and of one  *)
(* tagging run, AutotagUsingPaddleXRecognition.process_file                 *)
(* (src/src/autotag.py).                                                    *)
(*                                                                          *)
(* Every call process_file makes to the PDF engine, the renderer, the       *)
(* detector and the template creator is one step; the outcome of a call     *)
(* into a collaborator (success, a false/None return, an exception) is a    *)
(* nondeterministic choice.  try/finally blocks are modelled with a pending *)
(* exception `exc` that is carried through the release steps.               *)
(***************************************************************************)
EXTENDS Integers, Sequences, FiniteSets, TLC

\* Largest number of pages doc.GetNumPages() reports in the model.
MaxPages == 2

VARIABLES
    args,               \* main.py: the parsed command line (argparse namespace)
    mainPc,             \* main.py: position of main()
    exitCode,           \* process exit code, -1 while the process is running
    printed,            \* a message was printed (stdout or stderr)
    runResult,          \* outcome of autotag_pdf / autotag_folder seen by main
    license_name,       \* self.license_name
    license_key,        \* self.license_key
    pc,                 \* position of process_file
    num_pages,          \* num_pages = doc.GetNumPages()
    page_index,         \* loop variable of `for page_index in range(0, num_pages)`
    docHeld,            \* the handle returned by pdfix.OpenDoc is open
    heldPages,          \* page indices whose PdfPage handle is held
    heldViews,          \* page indices whose page view is held
    streamHeld,         \* the memory stream exists (created, not destroyed)
    pages,              \* page_number of every page added by process_page
    template_json_dict, \* result of create_json_dict_for_document
    templateFile,       \* what was written to ../output/<id>-template_json.json
    engineTemplate,     \* what doc.GetTemplate() was loaded with
    exc,                \* the exception in flight / the one that left process_file
    ops,                \* log of the calls made to the collaborators
    json_dict,          \* _json_to_raw_data: the text held by the dictionary
    raw_data,           \* _json_to_raw_data: the returned c_ubyte array
    raw_data_size,      \* _json_to_raw_data: the returned size
    streamData,         \* the bytes memory_stream.Write put into the stream
    rawPc               \* position of the conversion

vars == << args, mainPc, exitCode, printed, runResult, license_name, license_key,
           pc, num_pages, page_index, docHeld, heldPages, heldViews, streamHeld,
           pages, template_json_dict, templateFile, engineTemplate, exc, ops,
           json_dict, raw_data, raw_data_size, streamData, rawPc >>

\* The variables of the conversion of the template to raw data
rawVars == << json_dict, raw_data, raw_data_size, streamData, rawPc >>

mainVars == << args, mainPc, exitCode, printed, runResult >>

runVars == << license_name, license_key, pc, num_pages, page_index, docHeld,
              heldPages, heldViews, streamHeld, pages, template_json_dict,
              templateFile, engineTemplate, exc, ops, rawVars >>

-----------------------------------------------------------------------------
(* Command line values *)

\* argparse outcome: a parse failure, --help, no subcommand, config, tag
Commands == {"bad", "help", "none", "config", "tag"}

\* Paths are sequences of characters; <<>> is an absent or empty argument.
PdfPath   == << "a", ".", "p", "d", "f" >>
PdfUpper  == << "A", ".", "P", "D", "F" >>
TxtPath   == << "a", ".", "t", "x", "t" >>
DirPath   == << "d", "i", "r" >>
Paths     == { <<>>, PdfPath, PdfUpper, TxtPath, DirPath }

\* Directories of the file system the command runs on.
Directories == { DirPath }

LicenseNames == { "", "user" }
LicenseKeys  == { "", "key" }

\* str.lower() on the characters that occur in Paths
LowerChar(c) ==
    CASE c = "A" -> "a"
      [] c = "P" -> "p"
      [] c = "D" -> "d"
      [] c = "F" -> "f"
      [] OTHER   -> c

Lower(s) == [ i \in 1..Len(s) |-> LowerChar(s[i]) ]

\* str.endswith
EndsWith(s, suffix) ==
    /\ Len(s) >= Len(suffix)
    /\ SubSeq(s, Len(s) - Len(suffix) + 1, Len(s)) = suffix

DotPdf == << ".", "p", "d", "f" >>

\* input_file.lower().endswith(".pdf")
IsPdfName(p) == EndsWith(Lower(p), DotPdf)

\* Path(input_file).is_dir()
IsDir(p) == p \in Directories

\* Python truthiness of a str / None argument
Truthy(s) == s # <<>>

-----------------------------------------------------------------------------
(* Exceptions *)

NoExc == [ type |-> "none", op |-> "none", page |-> -1,
           code |-> FALSE, msg |-> FALSE ]

\* An exception raised while calling `op`; `code` / `msg` tell whether its text
\* carries pdfix.GetErrorType() / pdfix.GetError().
Exc(type, op, page, code, msg) ==
    [ type |-> type, op |-> op, page |-> page, code |-> code, msg |-> msg ]

\* One entry of the call log: the call, its argument (-1: none), whether it
\* succeeded, and the value of the loop variable when it was made.
Call(op, arg, ok) == [ op |-> op, arg |-> arg, ok |-> ok, page |-> page_index ]

Logged(op, arg, ok) == Append(ops, Call(op, arg, ok))

\* No template dictionary (Python: the name is not bound yet).
NoTemplate == [ built |-> FALSE, pages |-> <<>> ]

\* Mutant: the zero-based index is used as the page number.
PageNumber_ZeroBased(idx) == idx

\* page_number = page_index + 1
PageNumber(idx) == idx + 1

-----------------------------------------------------------------------------
(* Initial state: a command line, nothing run yet *)

Init ==
    /\ args \in [ cmd : Commands, input : Paths, output : Paths,
                  name : LicenseNames, key : LicenseKeys ]
    /\ (args.cmd # "tag" => args.input = <<>> /\ args.output = <<>>)
    /\ mainPc = "parse"
    /\ exitCode = -1
    /\ printed = FALSE
    /\ runResult = "none"
    /\ license_name = ""
    /\ license_key = ""
    /\ pc = "NotStarted"
    /\ num_pages = 0
    /\ page_index = 0
    /\ docHeld = FALSE
    /\ heldPages = {}
    /\ heldViews = {}
    /\ streamHeld = FALSE
    /\ pages = <<>>
    /\ template_json_dict = NoTemplate
    /\ templateFile = NoTemplate
    /\ engineTemplate = NoTemplate
    /\ exc = NoExc
    /\ ops = <<>>
    /\ json_dict = <<>>
    /\ raw_data = <<>>
    /\ raw_data_size = 0
    /\ streamData = <<>>
    /\ rawPc = "input"

-----------------------------------------------------------------------------
(* main.py *)

\* The process ends with `code`; `message` tells whether something was printed.
Exit(code, message) ==
    /\ mainPc' = "exited"
    /\ exitCode' = code
    /\ printed' = (printed \/ message)

\* parser.parse_args() raises SystemExit with a non-zero code
ParseFailed ==
    /\ mainPc = "parse"
    /\ args.cmd = "bad"
    /\ Exit(1, TRUE)
    /\ UNCHANGED << args, runResult >>
    /\ UNCHANGED runVars

\* parser.parse_args() raises SystemExit(0): --help
ParseHelp ==
    /\ mainPc = "parse"
    /\ args.cmd = "help"
    /\ Exit(0, TRUE)
    /\ UNCHANGED << args, runResult >>
    /\ UNCHANGED runVars

ParseOk ==
    /\ mainPc = "parse"
    /\ args.cmd \notin {"bad", "help"}
    /\ mainPc' = "dispatch"
    /\ UNCHANGED << args, exitCode, printed, runResult >>
    /\ UNCHANGED runVars

\* args.subparser == "config": get_config, sys.exit(0)
ConfigCommand ==
    /\ mainPc = "dispatch"
    /\ args.cmd = "config"
    /\ Exit(0, args.output = <<>>)
    /\ UNCHANGED << args, runResult >>
    /\ UNCHANGED runVars

\* neither branch of the if/elif is taken: main() returns
NoCommand ==
    /\ mainPc = "dispatch"
    /\ args.cmd = "none"
    /\ Exit(0, FALSE)
    /\ UNCHANGED << args, runResult >>
    /\ UNCHANGED runVars

\* parser.error(...): prints the usage and exits with status 2
TagMissingArgument ==
    /\ mainPc = "dispatch"
    /\ args.cmd = "tag"
    /\ (~Truthy(args.input) \/ ~Truthy(args.output))
    /\ Exit(2, TRUE)
    /\ UNCHANGED << args, runResult >>
    /\ UNCHANGED runVars

\* The license name and key autotag_pdf(input_file, output_file) can build the
\* tagging run with: it is handed the two paths and nothing else.
AutotagPdfLicense(input_file, output_file) == LicenseNames \X LicenseKeys

\* autotag_pdf(input_file, output_file): a tagging run is constructed and
\* process_file starts
TagPdf ==
    /\ mainPc = "dispatch"
    /\ args.cmd = "tag"
    /\ Truthy(args.input) /\ Truthy(args.output)
    /\ IsPdfName(args.input) /\ IsPdfName(args.output)
    /\ mainPc' = "autotag_pdf"
    /\ \E lic \in AutotagPdfLicense(args.input, args.output) :
         /\ license_name' = lic[1]
         /\ license_key' = lic[2]
    /\ pc' = "GetPdfix"
    /\ UNCHANGED << args, exitCode, printed, runResult >>
    /\ UNCHANGED << num_pages, page_index, docHeld, heldPages, heldViews,
                    streamHeld, pages, template_json_dict, templateFile,
                    engineTemplate, exc, ops, rawVars >>

\* autotag_pdf returned: main() reaches its end
AutotagPdfReturns ==
    /\ mainPc = "autotag_pdf"
    /\ pc = "Done"
    /\ runResult' = "ok"
    /\ Exit(0, FALSE)
    /\ UNCHANGED args
    /\ UNCHANGED runVars

\* except Exception as e: sys.exit("Failed to run Paddle {}".format(e))
AutotagPdfRaises ==
    /\ mainPc = "autotag_pdf"
    /\ pc = "Failed"
    /\ runResult' = "raised"
    /\ Exit(1, TRUE)
    /\ UNCHANGED args
    /\ UNCHANGED runVars

\* elif Path(input_file).is_dir(): autotag_folder(input_file, output_file)
TagFolder ==
    /\ mainPc = "dispatch"
    /\ args.cmd = "tag"
    /\ Truthy(args.input) /\ Truthy(args.output)
    /\ ~(IsPdfName(args.input) /\ IsPdfName(args.output))
    /\ IsDir(args.input)
    /\ mainPc' = "autotag_folder"
    /\ UNCHANGED << args, exitCode, printed, runResult >>
    /\ UNCHANGED runVars

\* autotag_folder returns or raises
AutotagFolderReturns ==
    /\ mainPc = "autotag_folder"
    /\ runResult' = "ok"
    /\ Exit(0, FALSE)
    /\ UNCHANGED args
    /\ UNCHANGED runVars

AutotagFolderRaises ==
    /\ mainPc = "autotag_folder"
    /\ runResult' = "raised"
    /\ Exit(1, TRUE)
    /\ UNCHANGED args
    /\ UNCHANGED runVars

\* else: print("Input and output file must be PDF"); main() returns
TagNotPdf ==
    /\ mainPc = "dispatch"
    /\ args.cmd = "tag"
    /\ Truthy(args.input) /\ Truthy(args.output)
    /\ ~(IsPdfName(args.input) /\ IsPdfName(args.output))
    /\ ~IsDir(args.input)
    /\ Exit(0, TRUE)
    /\ UNCHANGED << args, runResult >>
    /\ UNCHANGED runVars

-----------------------------------------------------------------------------
(* autotag.py: process_file *)

\* What main.py keeps while process_file runs.
MainIdle == UNCHANGED << args, mainPc, exitCode, printed, runResult, rawVars >>

\* An exception leaves process_file: nothing after the raise is executed.
Propagate(e) ==
    /\ pc' = "Failed"
    /\ exc' = e

\* pdfix = GetPdfix(); if pdfix is None: raise Exception(...)
GetPdfixStep ==
    /\ pc = "GetPdfix"
    /\ \E ok \in BOOLEAN :
         /\ ops' = Logged("GetPdfix", -1, ok)
         /\ IF ok
              THEN pc' = "Authorize" /\ exc' = exc
              ELSE Propagate(Exc("Exception", "GetPdfix", -1, FALSE, FALSE))
    /\ UNCHANGED << license_name, license_key, num_pages, page_index, docHeld,
                    heldPages, heldViews, streamHeld, pages, template_json_dict,
                    templateFile, engineTemplate >>
    /\ MainIdle

\* Mutant: the engine's answer is not checked.
AuthorizeNext_Unchecked(ok) == "OpenDoc"

\* `if not ...Authorize(...)/Activate(...): raise`: where _authorize leaves
\* process_file after the engine's answer
AuthorizeNext(ok) == IF ok THEN "OpenDoc" ELSE "Failed"

\* _authorize: account authorization with name and key
AuthorizeAccount ==
    /\ pc = "Authorize"
    /\ license_name # "" /\ license_key # ""
    /\ \E ok \in BOOLEAN :
         /\ ops' = Logged("Authorize", -1, ok)
         /\ pc' = AuthorizeNext(ok)
         /\ exc' = IF ok THEN exc
                   ELSE Exc("PdfixAuthorizationException", "Authorize",
                            -1, FALSE, TRUE)
    /\ UNCHANGED << license_name, license_key, num_pages, page_index, docHeld,
                    heldPages, heldViews, streamHeld, pages, template_json_dict,
                    templateFile, engineTemplate >>
    /\ MainIdle

\* _authorize: activation with the key only
AuthorizeActivate ==
    /\ pc = "Authorize"
    /\ ~(license_name # "" /\ license_key # "")
    /\ license_key # ""
    /\ \E ok \in BOOLEAN :
         /\ ops' = Logged("Activate", -1, ok)
         /\ pc' = AuthorizeNext(ok)
         /\ exc' = IF ok THEN exc
                   ELSE Exc("PdfixActivationException", "Activate",
                            -1, FALSE, TRUE)
    /\ UNCHANGED << license_name, license_key, num_pages, page_index, docHeld,
                    heldPages, heldViews, streamHeld, pages, template_json_dict,
                    templateFile, engineTemplate >>
    /\ MainIdle

\* _authorize: no key, the trial is used
AuthorizeTrial ==
    /\ pc = "Authorize"
    /\ ~(license_name # "" /\ license_key # "")
    /\ license_key = ""
    /\ pc' = "OpenDoc"
    /\ UNCHANGED << license_name, license_key, num_pages, page_index, docHeld,
                    heldPages, heldViews, streamHeld, pages, template_json_dict,
                    templateFile, engineTemplate, exc, ops >>
    /\ MainIdle

\* doc = pdfix.OpenDoc(...); num_pages = doc.GetNumPages();
\* template_json_creator = TemplateJsonCreator()
OpenDoc ==
    /\ pc = "OpenDoc"
    /\ \E ok \in BOOLEAN :
         /\ ops' = Logged("OpenDoc", -1, ok)
         /\ IF ok
              THEN /\ \E n \in 0..MaxPages : num_pages' = n
                   /\ docHeld' = TRUE
                   /\ pc' = "Loop"
                   /\ exc' = exc
              ELSE /\ Propagate(Exc("RuntimeError", "OpenDoc", -1, TRUE, TRUE))
                   /\ UNCHANGED << num_pages, docHeld >>
    /\ page_index' = 0
    /\ pages' = <<>>
    /\ UNCHANGED << license_name, license_key, heldPages, heldViews, streamHeld,
                    template_json_dict, templateFile, engineTemplate >>
    /\ MainIdle

\* for page_index in range(0, num_pages): page = doc.AcquirePage(page_index)
AcquirePage ==
    /\ pc = "Loop"
    /\ page_index < num_pages
    /\ \E ok \in BOOLEAN :
         /\ ops' = Logged("AcquirePage", page_index, ok)
         /\ IF ok
              THEN /\ heldPages' = heldPages \cup {page_index}
                   /\ pc' = "AcquirePageView"
                   /\ exc' = exc
              ELSE /\ Propagate(Exc("PdfixException", "AcquirePage", page_index,
                                    FALSE, FALSE))
                   /\ UNCHANGED heldPages
    /\ UNCHANGED << license_name, license_key, num_pages, page_index, docHeld,
                    heldViews, streamHeld, pages, template_json_dict,
                    templateFile, engineTemplate >>
    /\ MainIdle

\* Mutant: the template is neither built nor loaded before tagging.
AfterLoop_NoTemplate == "AddTags"

\* The statement that follows the for loop (line 95).
AfterLoop == "CreateJsonDict"

\* Mutant: the loop is left one page early.
LoopExit_OnePageEarly ==
    /\ pc = "Loop"
    /\ ~(page_index < num_pages - 1)
    /\ pc' = AfterLoop
    /\ UNCHANGED << license_name, license_key, num_pages, page_index, docHeld,
                    heldPages, heldViews, streamHeld, pages, template_json_dict,
                    templateFile, engineTemplate, exc, ops >>
    /\ MainIdle

\* range(0, num_pages) is exhausted
LoopExit ==
    /\ pc = "Loop"
    /\ ~(page_index < num_pages)
    /\ pc' = AfterLoop
    /\ UNCHANGED << license_name, license_key, num_pages, page_index, docHeld,
                    heldPages, heldViews, streamHeld, pages, template_json_dict,
                    templateFile, engineTemplate, exc, ops >>
    /\ MainIdle

-----------------------------------------------------------------------------
(* autotag.py: _process_pdf_file_page, called inside the try of the loop *)

\* Mutant: no finally, the exception leaves without the release.
PageTryHandler_NoFinally == "Failed"

\* Where an exception raised inside `try:` of _process_pdf_file_page goes:
\* `except Exception: raise` with `finally: page_view.Release()`
PageTryHandler == "ReleaseView"

\* What the per-page steps leave alone.
PageStepFrame ==
    /\ UNCHANGED << license_name, license_key, num_pages, page_index, docHeld,
                    streamHeld, template_json_dict, templateFile,
                    engineTemplate >>
    /\ MainIdle

\* page_view = page.AcquirePageView(self.zoom, kRotate0), before the try: with
\* no view there is nothing to render and the failure reaches the caller's
\* finally
AcquirePageView ==
    /\ pc = "AcquirePageView"
    /\ \E ok \in BOOLEAN :
         /\ ops' = Logged("AcquirePageView", page_index, ok)
         /\ IF ok
              THEN /\ heldViews' = heldViews \cup {page_index}
                   /\ pc' = "Render"
                   /\ exc' = exc
              ELSE /\ pc' = "ReleasePage"
                   /\ exc' = Exc("Exception", "AcquirePageView", page_index,
                                 FALSE, FALSE)
                   /\ UNCHANGED heldViews
    /\ UNCHANGED << heldPages, pages >>
    /\ PageStepFrame

\* image = create_image_from_pdf_page(page, page_view)
Render ==
    /\ pc = "Render"
    /\ \E ok \in BOOLEAN :
         /\ ops' = Logged("Render", page_index, ok)
         /\ IF ok
              THEN pc' = "Detect" /\ exc' = exc
              ELSE /\ pc' = PageTryHandler
                   /\ exc' = Exc("Exception", "Render", page_index, FALSE, FALSE)
    /\ UNCHANGED << heldPages, heldViews, pages >>
    /\ PageStepFrame

\* paddlex = PaddleXEngine(self.model);
\* results = paddlex.process_pdf_page_image_with_ai(...)
Detect ==
    /\ pc = "Detect"
    /\ \E ok \in BOOLEAN :
         /\ ops' = Logged("Detect", PageNumber(page_index), ok)
         /\ IF ok
              THEN pc' = "ProcessPage" /\ exc' = exc
              ELSE /\ pc' = PageTryHandler
                   /\ exc' = Exc("Exception", "Detect", page_index, FALSE, FALSE)
    /\ UNCHANGED << heldPages, heldViews, pages >>
    /\ PageStepFrame

\* TemplateJsonCreator.process_page: the page is added to the creator's pages
AddPage(template_pages, page_number) == Append(template_pages, page_number)

\* templateJsonCreator.process_page(results, page_number, page_view, self.zoom)
ProcessPage ==
    /\ pc = "ProcessPage"
    /\ \E ok \in BOOLEAN :
         /\ ops' = Logged("process_page", PageNumber(page_index), ok)
         /\ IF ok
              THEN /\ pages' = AddPage(pages, PageNumber(page_index))
                   /\ pc' = "ReleaseView"
                   /\ exc' = exc
              ELSE /\ pc' = PageTryHandler
                   /\ exc' = Exc("Exception", "process_page", page_index,
                                 FALSE, FALSE)
                   /\ UNCHANGED pages
    /\ UNCHANGED << heldPages, heldViews >>
    /\ PageStepFrame

\* Mutant: the page view is not released before the page is.
ReleaseView_Skipped ==
    /\ pc = "ReleaseView"
    /\ pc' = "ReleasePage"
    /\ UNCHANGED << heldPages, heldViews, pages, exc, ops >>
    /\ PageStepFrame

\* finally: page_view.Release()
ReleaseView ==
    /\ pc = "ReleaseView"
    /\ ops' = Logged("ViewRelease", page_index, TRUE)
    /\ heldViews' = heldViews \ {page_index}
    /\ pc' = "ReleasePage"
    /\ UNCHANGED << heldPages, pages, exc >>
    /\ PageStepFrame

\* Mutant: the exception is swallowed and the loop goes on.
Reraise_Swallowed(e) == FALSE

\* `except Exception: raise` of the loop body: an exception in flight leaves
\* the loop and process_file once the finally has run
Reraise(e) == e # NoExc

\* Mutant: the loop variable does not advance, the same page comes again.
ReleasePage_NoAdvance ==
    /\ pc = "ReleasePage"
    /\ ops' = Logged("PageRelease", page_index, TRUE)
    /\ heldPages' = heldPages \ {page_index}
    /\ pc' = IF Reraise(exc) THEN "Failed" ELSE "Loop"
    /\ UNCHANGED << license_name, license_key, num_pages, page_index, docHeld,
                    heldViews, streamHeld, pages, template_json_dict,
                    templateFile, engineTemplate, exc >>
    /\ MainIdle

\* finally: page.Release(), then the next iteration or the exception goes on
ReleasePage ==
    /\ pc = "ReleasePage"
    /\ ops' = Logged("PageRelease", page_index, TRUE)
    /\ heldPages' = heldPages \ {page_index}
    /\ IF Reraise(exc)
         THEN /\ pc' = "Failed"
              /\ UNCHANGED << page_index, exc >>
         ELSE /\ pc' = "Loop"
              /\ page_index' = page_index + 1
              /\ exc' = NoExc
    /\ UNCHANGED << license_name, license_key, num_pages, docHeld, heldViews,
                    streamHeld, pages, template_json_dict, templateFile,
                    engineTemplate >>
    /\ MainIdle

-----------------------------------------------------------------------------
(* autotag.py: process_file after the loop *)

\* What the steps after the loop leave alone.
TailFrame ==
    /\ UNCHANGED << license_name, license_key, num_pages, page_index, docHeld,
                    heldPages, heldViews, pages >>
    /\ MainIdle

\* template_json_dict = template_json_creator.create_json_dict_for_document(...)
CreateJsonDict ==
    /\ pc = "CreateJsonDict"
    /\ \E ok \in BOOLEAN :
         /\ ops' = Logged("create_json_dict_for_document", -1, ok)
         /\ IF ok
              THEN /\ template_json_dict' = [ built |-> TRUE, pages |-> pages ]
                   /\ pc' = "WriteTemplateFile"
                   /\ exc' = exc
              ELSE /\ Propagate(Exc("Exception", "create_json_dict_for_document",
                                    -1, FALSE, FALSE))
                   /\ UNCHANGED template_json_dict
    /\ UNCHANGED << streamHeld, templateFile, engineTemplate >>
    /\ TailFrame

\* with open(template_path, "w") as file: file.write(json.dumps(...))
WriteTemplateFile ==
    /\ pc = "WriteTemplateFile"
    /\ \E ok \in BOOLEAN :
         /\ ops' = Logged("WriteTemplateFile", -1, ok)
         /\ IF ok
              THEN /\ templateFile' = template_json_dict
                   /\ pc' = "RemoveTags"
                   /\ exc' = exc
              ELSE /\ Propagate(Exc("OSError", "WriteTemplateFile", -1,
                                    FALSE, FALSE))
                   /\ UNCHANGED templateFile
    /\ UNCHANGED << streamHeld, template_json_dict, engineTemplate >>
    /\ TailFrame

\* doc.RemoveTags(): the returned flag is not looked at
RemoveTags ==
    /\ pc = "RemoveTags"
    /\ \E ok \in BOOLEAN : ops' = Logged("RemoveTags", -1, ok)
    /\ pc' = "RemoveStructTree"
    /\ UNCHANGED << streamHeld, template_json_dict, templateFile,
                    engineTemplate, exc >>
    /\ TailFrame

\* doc.RemoveStructTree(): the returned flag is not looked at
RemoveStructTree ==
    /\ pc = "RemoveStructTree"
    /\ \E ok \in BOOLEAN : ops' = Logged("RemoveStructTree", -1, ok)
    /\ pc' = "CreateMemStream"
    /\ UNCHANGED << streamHeld, template_json_dict, templateFile,
                    engineTemplate, exc >>
    /\ TailFrame

\* memory_stream = GetPdfix().CreateMemStream()
CreateMemStream ==
    /\ pc = "CreateMemStream"
    /\ ops' = Logged("CreateMemStream", -1, TRUE)
    /\ streamHeld' = TRUE
    /\ pc' = "StreamWrite"
    /\ UNCHANGED << template_json_dict, templateFile, engineTemplate, exc >>
    /\ TailFrame

\* Mutant: the exception raised inside the try leaves as it is.
Wrapped_NotWrapped(op, code, msg) == Exc("Exception", op, -1, code, msg)

\* `except Exception as e: raise PdfixException(f"...: {e}")`: the exception
\* that replaces one raised inside the try; its text holds the inner text
Wrapped(op, code, msg) == Exc("PdfixException", op, -1, code, msg)

\* raw_data, raw_data_size = self._json_to_raw_data(template_json_dict)
\* if not memory_stream.Write(0, raw_data, raw_data_size): raise Exception(...)
StreamWrite ==
    /\ pc = "StreamWrite"
    /\ \E ok \in BOOLEAN :
         /\ ops' = Logged("StreamWrite", -1, ok)
         /\ IF ok
              THEN pc' = "LoadFromStream" /\ exc' = exc
              ELSE pc' = "DestroyStream"
                   /\ exc' = Wrapped("StreamWrite", FALSE, TRUE)
    /\ UNCHANGED << streamHeld, template_json_dict, templateFile,
                    engineTemplate >>
    /\ TailFrame

\* doc_template = doc.GetTemplate()
\* if not doc_template.LoadFromStream(memory_stream, kDataFormatJson): raise
LoadFromStream ==
    /\ pc = "LoadFromStream"
    /\ \E ok \in BOOLEAN :
         /\ ops' = Logged("LoadFromStream", -1, ok)
         /\ IF ok
              THEN /\ engineTemplate' = template_json_dict
                   /\ exc' = exc
              ELSE /\ exc' = Wrapped("LoadFromStream", FALSE, TRUE)
                   /\ UNCHANGED engineTemplate
    /\ pc' = "DestroyStream"
    /\ UNCHANGED << streamHeld, template_json_dict, templateFile >>
    /\ TailFrame

\* finally: memory_stream.Destroy(), then AddTags or the exception goes on
DestroyStream ==
    /\ pc = "DestroyStream"
    /\ ops' = Logged("StreamDestroy", -1, TRUE)
    /\ streamHeld' = FALSE
    /\ pc' = IF exc # NoExc THEN "Failed" ELSE "AddTags"
    /\ UNCHANGED << template_json_dict, templateFile, engineTemplate, exc >>
    /\ TailFrame

\* Mutant: the result of AddTags is not checked.
AddTagsNext_Unchecked(ok) == "Save"

\* `if not doc.AddTags(tagsParams): raise Exception(pdfix.GetError())`
AddTagsNext(ok) == IF ok THEN "Save" ELSE "Failed"

\* tagsParams = PdfTagsParams(); doc.AddTags(tagsParams)
AddTags ==
    /\ pc = "AddTags"
    /\ \E ok \in BOOLEAN :
         /\ ops' = Logged("AddTags", -1, ok)
         /\ pc' = AddTagsNext(ok)
         /\ exc' = IF ok THEN exc
                   ELSE Exc("Exception", "AddTags", -1, FALSE, TRUE)
    /\ UNCHANGED << streamHeld, template_json_dict, templateFile,
                    engineTemplate >>
    /\ TailFrame

\* if not doc.Save(self.output_path_str, kSaveFull): raise RuntimeError(...)
Save ==
    /\ pc = "Save"
    /\ \E ok \in BOOLEAN :
         /\ ops' = Logged("Save", -1, ok)
         /\ IF ok
              THEN pc' = "Done" /\ exc' = exc
              ELSE Propagate(Exc("RuntimeError", "Save", -1, TRUE, TRUE))
    /\ UNCHANGED << streamHeld, template_json_dict, templateFile,
                    engineTemplate >>
    /\ TailFrame

-----------------------------------------------------------------------------

Next ==
    \/ ParseFailed
    \/ ParseHelp
    \/ ParseOk
    \/ ConfigCommand
    \/ NoCommand
    \/ TagMissingArgument
    \/ TagPdf
    \/ AutotagPdfReturns
    \/ AutotagPdfRaises
    \/ TagFolder
    \/ AutotagFolderReturns
    \/ AutotagFolderRaises
    \/ TagNotPdf
    \/ GetPdfixStep
    \/ AuthorizeAccount
    \/ AuthorizeActivate
    \/ AuthorizeTrial
    \/ OpenDoc
    \/ AcquirePage
    \/ LoopExit
    \/ AcquirePageView
    \/ Render
    \/ Detect
    \/ ProcessPage
    \/ ReleaseView
    \/ ReleasePage
    \/ CreateJsonDict
    \/ WriteTemplateFile
    \/ RemoveTags
    \/ RemoveStructTree
    \/ CreateMemStream
    \/ StreamWrite
    \/ LoadFromStream
    \/ DestroyStream
    \/ AddTags
    \/ Save

Spec == Init /\ [][Next]_vars

\* The program is sequential and every call into a collaborator returns or
\* raises: a step that can be taken is taken.
LiveSpec == Init /\ [][Next]_vars /\ WF_vars(Next)

-----------------------------------------------------------------------------
(* Properties *)

\* process_file has returned (Done) or an exception has left it (Failed).
Terminal == pc \in {"Done", "Failed"}

\* Positions of the call log
Calls == DOMAIN ops

\* Number of successful calls of `op` with argument `arg`
Count(op, arg) ==
    Cardinality({ i \in Calls : ops[i].op = op /\ ops[i].arg = arg /\ ops[i].ok })

PageIndices == 0..(MaxPages - 1)

\* The calls made while one page is processed
PageOps == {"AcquirePage", "AcquirePageView", "Render", "Detect", "process_page"}

ReleaseOps == {"ViewRelease", "PageRelease"}

\* C1: every page handle and every page view that was acquired is released
\* once, never more often than acquired, a handle is held exactly while it is
\* acquired and not yet released, and when process_file has ended (Done or
\* Failed) no page handle and no page view is held.
C1_PageHandlesReleased ==
    /\ \A k \in PageIndices :
         /\ Count("AcquirePage", k) <= 1
         /\ Count("AcquirePageView", k) <= 1
         /\ Count("PageRelease", k) <= Count("AcquirePage", k)
         /\ Count("ViewRelease", k) <= Count("AcquirePageView", k)
         /\ (k \in heldPages) = (Count("PageRelease", k) < Count("AcquirePage", k))
         /\ (k \in heldViews) = (Count("ViewRelease", k) < Count("AcquirePageView", k))
         /\ Terminal => /\ Count("PageRelease", k) = Count("AcquirePage", k)
                        /\ Count("ViewRelease", k) = Count("AcquirePageView", k)
    /\ Terminal => heldPages = {} /\ heldViews = {}

\* The detector raised on the second page after the first page went through.
C1_Witness ==
    /\ pc = "Failed"
    /\ exc.op = "Detect" /\ exc.page = 1
    /\ Count("AcquirePage", 1) = 1 /\ Count("PageRelease", 1) = 1
    /\ Count("AcquirePageView", 1) = 1 /\ Count("ViewRelease", 1) = 1

\* C2: once a call made for page k has failed, the only calls that follow
\* are the releases of that page's view and handle: no later page is acquired,
\* page k is not tried again, no template is built or written, RemoveTags,
\* RemoveStructTree, AddTags and Save are not called; the run does not reach
\* Done, and the exception that leaves process_file is that failure, which the
\* caller sees as a raised exception.
C2_PageFailureAborts ==
    \A i \in Calls :
        (ops[i].op \in PageOps /\ ~ops[i].ok) =>
            /\ \A j \in Calls :
                 j > i => ops[j].op \in ReleaseOps /\ ops[j].page = ops[i].page
            /\ \A j \in Calls : j < i => ops[j].page <= ops[i].page
            /\ template_json_dict = NoTemplate
            /\ templateFile = NoTemplate
            /\ engineTemplate = NoTemplate
            /\ pc \in {"ReleaseView", "ReleasePage", "Failed"}
            /\ exc.op = ops[i].op /\ exc.page = ops[i].page
            /\ (mainPc = "exited" => runResult = "raised")

\* Rendering failed on the first page of a two-page document and the run ended.
C2_Witness ==
    /\ pc = "Failed"
    /\ num_pages = 2
    /\ exc.op = "Render" /\ exc.page = 0
    /\ mainPc = "exited"

\* The calls whose failure the code turns into an exception
FatalOps == PageOps \cup
    {"GetPdfix", "Authorize", "Activate", "OpenDoc",
     "create_json_dict_for_document", "WriteTemplateFile", "StreamWrite",
     "LoadFromStream", "AddTags"}

\* C3: doc.Save is called at most once; when it is called every page of the
\* document has been processed successfully, the template that was built is
\* the one loaded into the engine, AddTags has succeeded, and none of the
\* steps before it (authorization, open, page steps, template build and
\* write, stream write, template load, AddTags) has failed.
C3_SaveOnlyAfterFullTagging ==
    /\ Cardinality({ i \in Calls : ops[i].op = "Save" }) <= 1
    /\ \A i \in Calls :
         ops[i].op = "Save" =>
            /\ \A j \in Calls : (j < i /\ ops[j].op \in FatalOps) => ops[j].ok
            /\ \A k \in 1..num_pages :
                 \E j \in Calls : /\ j < i
                                  /\ ops[j].op = "process_page"
                                  /\ ops[j].arg = k
                                  /\ ops[j].ok
            /\ Len(pages) = num_pages
            /\ \E j \in Calls : j < i /\ ops[j].op = "LoadFromStream" /\ ops[j].ok
            /\ \E j \in Calls : j < i /\ ops[j].op = "AddTags" /\ ops[j].ok
            /\ template_json_dict.built
            /\ engineTemplate = template_json_dict

\* A two-page document was tagged and saved.
C3_Witness ==
    /\ pc = "Done"
    /\ Len(pages) = 2
    /\ \E i \in Calls : ops[i].op = "Save" /\ ops[i].ok

\* C4 (as claimed): when process_file has ended after pdfix.OpenDoc returned
\* a document, the document handle is no longer held.
C4_DocumentReleasedAtEnd ==
    (Terminal /\ \E i \in Calls : ops[i].op = "OpenDoc" /\ ops[i].ok) => ~docHeld

\* The successful process_page calls, in the order they were made
ProcessPageCalls == SelectSeq(ops, LAMBDA c : c.op = "process_page")

\* The positions of process_file after the for loop
AfterLoopPcs ==
    {"CreateJsonDict", "WriteTemplateFile", "RemoveTags", "RemoveStructTree",
     "CreateMemStream", "StreamWrite", "LoadFromStream", "DestroyStream",
     "AddTags", "Save", "Done"}

\* C5: the k-th call of process_page carries page_number k, which is the loop
\* index plus one; the pages added so far are numbered 1, 2, ... without gap
\* or repetition and number as many as the loop has completed iterations;
\* once the loop is over exactly num_pages pages have been added.
C5_PagesInAscendingOrder ==
    /\ \A k \in 1..Len(ProcessPageCalls) :
         /\ ProcessPageCalls[k].arg = k
         /\ ProcessPageCalls[k].page = k - 1
    /\ \A i \in 1..Len(pages) : pages[i] = i
    /\ pc = "Loop" => Len(pages) = page_index
    /\ pc \in AfterLoopPcs => Len(pages) = num_pages
    /\ Len(pages) <= num_pages

\* Both pages of a two-page document have been added and the loop is over.
C5_Witness ==
    /\ pc = "CreateJsonDict"
    /\ num_pages = 2
    /\ pages = << 1, 2 >>
    /\ Len(ProcessPageCalls) = 2

\* C6 (as claimed): for the tag command the exit code is 0 only when the
\* tagging run succeeded, and whenever it did not succeed a message is printed
\* and the exit code is not 0.
C6_ExitCodeTellsFailure ==
    (mainPc = "exited" /\ args.cmd = "tag") =>
        /\ (exitCode = 0 => runResult = "ok")
        /\ (runResult # "ok" => exitCode # 0 /\ printed)

AuthOps == {"Authorize", "Activate"}

\* C7: OpenDoc is called only after _authorize has finished: with a key, a
\* successful Authorize (name and key) or Activate (key only) precedes it;
\* a rejected license ends the run at once, with the authorization or
\* activation exception and no call after it (no OpenDoc, no page, no Save);
\* without a key no authorization call is made and the run does not fail in
\* _authorize.
C7_AuthorizationFirst ==
    /\ \A i \in Calls :
         ops[i].op = "OpenDoc" =>
            IF license_key = ""
              THEN \A j \in Calls : ops[j].op \notin AuthOps
              ELSE \E j \in Calls :
                     /\ j < i
                     /\ ops[j].ok
                     /\ ops[j].op = IF license_name # "" THEN "Authorize"
                                    ELSE "Activate"
    /\ \A i \in Calls :
         (ops[i].op \in AuthOps /\ ~ops[i].ok) =>
            /\ pc = "Failed"
            /\ i = Len(ops)
            /\ exc.op = ops[i].op
            /\ exc.type = IF ops[i].op = "Authorize"
                            THEN "PdfixAuthorizationException"
                            ELSE "PdfixActivationException"
            /\ ~docHeld /\ heldPages = {}
    /\ license_key = "" =>
         /\ \A i \in Calls : ops[i].op \notin AuthOps
         /\ exc.op \notin AuthOps

\* The key-only activation was rejected.
C7_Witness ==
    /\ pc = "Failed"
    /\ license_name = "" /\ license_key # ""
    /\ exc.type = "PdfixActivationException"
    /\ ops[Len(ops)] = [ op |-> "Activate", arg |-> -1, ok |-> FALSE, page |-> 0 ]

\* The stage of the document run a position of process_file belongs to
Stage(p) ==
    CASE p \in {"NotStarted", "GetPdfix"} -> "Idle"
      [] p = "Authorize" -> "Authorizing"
      [] p = "OpenDoc" -> "DocumentOpen"
      [] p \in {"Loop", "AcquirePageView", "Render", "Detect", "ProcessPage",
                "ReleaseView", "ReleasePage"} -> "PerPage"
      [] p \in {"CreateJsonDict", "WriteTemplateFile", "RemoveTags",
                "RemoveStructTree", "CreateMemStream", "StreamWrite",
                "LoadFromStream", "DestroyStream"} -> "TemplateBuilt"
      [] p = "AddTags" -> "Tagged"
      [] p = "Save" -> "Saved"
      [] p = "Done" -> "Done"
      [] p = "Failed" -> "Failed"

\* The stage in which a call is made
OpStage(op) ==
    CASE op = "GetPdfix" -> "Idle"
      [] op \in AuthOps -> "Authorizing"
      [] op = "OpenDoc" -> "DocumentOpen"
      [] op \in PageOps \cup ReleaseOps -> "PerPage"
      [] op \in {"create_json_dict_for_document", "WriteTemplateFile",
                 "RemoveTags", "RemoveStructTree", "CreateMemStream",
                 "StreamWrite", "LoadFromStream", "StreamDestroy"}
           -> "TemplateBuilt"
      [] op = "AddTags" -> "Tagged"
      [] op = "Save" -> "Saved"

StageSucc(s) ==
    CASE s = "Idle" -> "Authorizing"
      [] s = "Authorizing" -> "DocumentOpen"
      [] s = "DocumentOpen" -> "PerPage"
      [] s = "PerPage" -> "TemplateBuilt"
      [] s = "TemplateBuilt" -> "Tagged"
      [] s = "Tagged" -> "Saved"
      [] s = "Saved" -> "Done"
      [] OTHER -> "none"

\* One step of the run respects the order of the stages.
StageStep ==
    /\ Stage(pc') # Stage(pc) =>
         Stage(pc') \in {StageSucc(Stage(pc)), "Failed"}
    /\ ops' # ops =>
         /\ Len(ops') = Len(ops) + 1
         /\ SubSeq(ops', 1, Len(ops)) = ops
         /\ OpStage(ops'[Len(ops')].op) = Stage(pc)
    /\ Terminal => UNCHANGED runVars

\* C8: a step of the run stays in its stage, moves to the next stage of
\* Idle, Authorizing, DocumentOpen, PerPage, TemplateBuilt, Tagged, Saved,
\* Done, or moves to Failed; every call is made in the stage it belongs to;
\* after Done or Failed nothing of the run changes and no call is made.
C8_StagesInOrder == [][StageStep]_vars

\* A one-page document has gone through every stage up to the save.
C8_Witness ==
    /\ Stage(pc) = "Saved"
    /\ Len(pages) = 1
    /\ { OpStage(ops[i].op) : i \in Calls } =
         {"Idle", "Authorizing", "DocumentOpen", "PerPage", "TemplateBuilt",
          "Tagged"}

\* Failed has been entered from stage s.
FailedFrom(s) == pc = "Failed" /\ OpStage(exc.op) = s

\* The failures the PDF document engine reports during a run
EngineFailureOps ==
    {"OpenDoc", "AcquirePage", "StreamWrite", "LoadFromStream", "AddTags", "Save"}

\* C9 (as claimed): a failure reported by the PDF document engine ends the
\* run, and the exception that leaves process_file carries the engine's error
\* code/type and its error message.
C9_EngineErrorCarriesCodeAndMessage ==
    \A i \in Calls :
        (ops[i].op \in EngineFailureOps /\ ~ops[i].ok /\ Terminal) =>
            /\ pc = "Failed"
            /\ exc.op = ops[i].op
            /\ exc.code /\ exc.msg

\* C10 (as claimed): the tagging run started by the tag command authorizes
\* with the --name and --key given on the command line (empty when omitted).
C10_CommandLineLicenseUsed ==
    (args.cmd = "tag" /\ pc # "NotStarted") =>
        license_name = args.name /\ license_key = args.key

\* Position in the call log of the successful call of `op` for page index k
\* (0 when there is none)
CallAt(op, k) ==
    LET hits == { i \in Calls : ops[i].op = op /\ ops[i].page = k /\ ops[i].ok }
    IN  IF hits = {} THEN 0 ELSE CHOOSE i \in hits : \A j \in hits : i <= j

\* C11: at most one page handle and at most one page view are held, and only
\* those of the page the loop is at; a view is held only while its page is
\* held; the view of a page is released before the page; when page k + 1 is
\* acquired the handle and the view of every earlier page have been released.
C11_OnePageAtATime ==
    /\ Cardinality(heldPages) <= 1
    /\ Cardinality(heldViews) <= 1
    /\ heldViews \subseteq heldPages
    /\ heldPages \subseteq {page_index}
    /\ pc = "Loop" => heldPages = {} /\ heldViews = {}
    /\ \A k \in PageIndices :
         /\ CallAt("AcquirePageView", k) # 0 =>
              /\ CallAt("AcquirePage", k) # 0
              /\ CallAt("AcquirePage", k) < CallAt("AcquirePageView", k)
         /\ CallAt("PageRelease", k) # 0 =>
              /\ CallAt("AcquirePage", k) < CallAt("PageRelease", k)
              /\ CallAt("AcquirePageView", k) # 0 =>
                   /\ CallAt("ViewRelease", k) # 0
                   /\ CallAt("AcquirePageView", k) < CallAt("ViewRelease", k)
                   /\ CallAt("ViewRelease", k) < CallAt("PageRelease", k)
    /\ \A i \in Calls :
         ops[i].op = "AcquirePage" =>
            \A k \in PageIndices :
                (CallAt("AcquirePage", k) # 0 /\ CallAt("AcquirePage", k) < i) =>
                    /\ k < ops[i].arg
                    /\ CallAt("PageRelease", k) # 0
                    /\ CallAt("PageRelease", k) < i
                    /\ CallAt("AcquirePageView", k) # 0 =>
                         /\ CallAt("ViewRelease", k) # 0
                         /\ CallAt("ViewRelease", k) < i

\* The second page and its view are held after the first page's view and
\* handle were released.
C11_Witness ==
    /\ pc = "Render"
    /\ heldPages = {1} /\ heldViews = {1}
    /\ CallAt("ViewRelease", 0) # 0
    /\ CallAt("ViewRelease", 0) < CallAt("PageRelease", 0)
    /\ CallAt("PageRelease", 0) < CallAt("AcquirePage", 1)

\* Positions of the calls of create_json_dict_for_document
TemplateCalls == { i \in Calls : ops[i].op = "create_json_dict_for_document" }

\* The calls that serialize the template or hand it to the engine
HandOverOps == {"WriteTemplateFile", "StreamWrite", "LoadFromStream"}

\* C12: create_json_dict_for_document is called at most once, and exactly
\* once with success in a run that reaches Done; when it is called every page
\* of the document has been processed and released, and no page call comes
\* after it; the template is written and handed to the engine only after it
\* was produced; the produced template holds all pages and no page is added
\* later; what is in the template file and what the engine loaded is that
\* template.
C12_TemplateProducedOnce ==
    /\ Cardinality(TemplateCalls) <= 1
    /\ pc = "Done" => \E i \in TemplateCalls : ops[i].ok
    /\ template_json_dict.built = (\E i \in TemplateCalls : ops[i].ok)
    /\ \A i \in TemplateCalls :
         /\ \A k \in 0..(num_pages - 1) :
              /\ \E j \in Calls : /\ j < i
                                  /\ ops[j].op = "process_page"
                                  /\ ops[j].page = k
                                  /\ ops[j].ok
              /\ \E j \in Calls : /\ j < i
                                  /\ ops[j].op = "PageRelease"
                                  /\ ops[j].page = k
         /\ \A j \in Calls :
              j > i => ops[j].op \notin PageOps \cup ReleaseOps
         /\ heldPages = {} /\ heldViews = {}
    /\ \A j \in Calls :
         ops[j].op \in HandOverOps \cup {"RemoveTags", "AddTags", "Save"} =>
            \E i \in TemplateCalls : i < j /\ ops[i].ok
    /\ template_json_dict.built =>
         /\ template_json_dict.pages = pages
         /\ Len(template_json_dict.pages) = num_pages
    /\ templateFile \in {NoTemplate, template_json_dict}
    /\ engineTemplate \in {NoTemplate, template_json_dict}
    /\ (\E j \in Calls : ops[j].op = "WriteTemplateFile" /\ ops[j].ok)
         => templateFile = template_json_dict
    /\ (\E j \in Calls : ops[j].op = "LoadFromStream" /\ ops[j].ok)
         => engineTemplate = template_json_dict /\ templateFile = engineTemplate

\* The template of a two-page document has been written to the file and
\* loaded into the engine.
C12_Witness ==
    /\ pc = "DestroyStream"
    /\ exc = NoExc
    /\ template_json_dict = [ built |-> TRUE, pages |-> << 1, 2 >> ]
    /\ templateFile = template_json_dict
    /\ engineTemplate = template_json_dict

\* One step of the loop: the loop variable stays or grows by one, it grows
\* exactly when an iteration ends without exception, and a page is acquired
\* only at the index the loop is at, above every page acquired before.
LoopStep ==
    /\ page_index' \in {page_index, page_index + 1}
    /\ page_index' = page_index + 1 <=>
         (pc = "ReleasePage" /\ pc' = "Loop")
    /\ (pc = "ReleasePage" /\ pc' = "Loop") => exc = NoExc
    /\ (pc = "Loop" /\ pc' # "Loop" /\ pc' # "Failed") =>
         \/ pc' = "AcquirePageView" /\ page_index < num_pages
         \/ pc' = "CreateJsonDict" /\ page_index = num_pages
    /\ (ops' # ops /\ ops'[Len(ops')].op = "AcquirePage") =>
         /\ ops'[Len(ops')].arg = page_index
         /\ \A i \in Calls : ops[i].op = "AcquirePage" => ops[i].arg < page_index
    /\ (pc # "Failed" /\ pc' = "Failed") => exc' # NoExc

\* C13: a run of process_file that has started reaches Done or Failed; the
\* loop advances by exactly one page per iteration and never goes back to a
\* page; a run ends in Failed only with an exception.
C13_RunTerminates ==
    /\ [](pc # "NotStarted" => <>Terminal)
    /\ [][LoopStep]_vars
    /\ [](pc = "Failed" => exc # NoExc)

\* A two-page document went through the loop and the run ended in Done.
C13_Witness ==
    /\ pc = "Done"
    /\ page_index = 2 /\ num_pages = 2
    /\ mainPc = "exited"

\* Number of calls of `op` in the log
Made(op) == Cardinality({ i \in Calls : ops[i].op = op })

\* C14: the memory stream is created at most once and destroyed at most as
\* often as created; it exists exactly between the two; when the run has
\* ended it has been destroyed once if it was created; AddTags and Save are
\* called only after the stream was destroyed; a failed stream write or
\* template load is followed by nothing but the destruction of the stream,
\* leaves process_file as a PdfixException, and neither AddTags nor Save is
\* called.
C14_StreamDestroyedOnce ==
    /\ Made("CreateMemStream") <= 1
    /\ Made("StreamDestroy") <= Made("CreateMemStream")
    /\ streamHeld = (Made("StreamDestroy") < Made("CreateMemStream"))
    /\ Terminal => Made("StreamDestroy") = Made("CreateMemStream")
    /\ \A i \in Calls :
         ops[i].op \in {"AddTags", "Save"} =>
            \E j \in Calls : j < i /\ ops[j].op = "StreamDestroy"
    /\ \A i \in Calls :
         ops[i].op \in {"StreamWrite", "LoadFromStream", "StreamDestroy"} =>
            \E j \in Calls : j < i /\ ops[j].op = "CreateMemStream"
    /\ \A i \in Calls :
         (ops[i].op \in {"StreamWrite", "LoadFromStream"} /\ ~ops[i].ok) =>
            /\ \A j \in Calls : j > i => ops[j].op = "StreamDestroy"
            /\ pc \in {"DestroyStream", "Failed"}
            /\ exc.type = "PdfixException"
            /\ exc.op = ops[i].op
            /\ (mainPc = "exited" => runResult = "raised")

\* Loading the template failed; the stream was destroyed and the run failed.
C14_Witness ==
    /\ pc = "Failed"
    /\ exc.op = "LoadFromStream"
    /\ exc.type = "PdfixException"
    /\ Made("StreamDestroy") = 1
    /\ ~streamHeld

-----------------------------------------------------------------------------
(* autotag.py: _json_to_raw_data and the write to the memory stream.        *)
(* Text is a sequence of Unicode code points, raw data a sequence of bytes. *)

\* Longest text value of the dictionary in the model.
MaxTextLen == 3

\* The characters of the text: A, the double quote, the line feed, e with
\* acute (2 bytes in UTF-8), the euro sign (3 bytes), an emoji (4 bytes).
TextChars == { 65, 34, 10, 233, 8364, 128512 }

Texts == UNION { [ 1..n -> TextChars ] : n \in 0..MaxTextLen }

\* The character of a hexadecimal digit, lower case
HexDigit(d) == IF d < 10 THEN 48 + d ELSE 87 + d

\* "\uXXXX" for a 16-bit value
UEscape(v) ==
    << 92, 117, HexDigit(v \div 4096), HexDigit((v \div 256) % 16),
       HexDigit((v \div 16) % 16), HexDigit(v % 16) >>

\* Mutant: json.dumps(..., ensure_ascii=False): only the quote, the backslash
\* and the control characters are escaped.
EscapeChar_NotAscii(c) ==
    CASE c = 34 -> << 92, 34 >>
      [] c = 92 -> << 92, 92 >>
      [] c = 10 -> << 92, 110 >>
      [] c < 32 -> UEscape(c)
      [] OTHER  -> << c >>

\* json.dumps with the default ensure_ascii=True on one character of a string:
\* the quote, the backslash and the line feed get their two-character escape,
\* printable ASCII stays, everything else becomes \uXXXX, as a surrogate pair
\* above the basic plane.
EscapeChar(c) ==
    CASE c = 34 -> << 92, 34 >>
      [] c = 92 -> << 92, 92 >>
      [] c = 10 -> << 92, 110 >>
      [] c >= 32 /\ c <= 126 -> << c >>
      [] c < 65536 -> UEscape(c)
      [] OTHER -> UEscape(55296 + ((c - 65536) \div 1024))
                  \o UEscape(56320 + ((c - 65536) % 1024))

RECURSIVE EscapeText(_)
EscapeText(t) ==
    IF t = <<>> THEN <<>> ELSE EscapeChar(Head(t)) \o EscapeText(Tail(t))

\* json_str = json.dumps(json_dict) for the dictionary {"model": <text>}
JsonDumps(text) ==
    << 123, 34, 109, 111, 100, 101, 108, 34, 58, 32, 34 >>
    \o EscapeText(text) \o << 34, 125 >>

\* str.encode("utf-8") on one code point
Utf8Char(c) ==
    CASE c < 128 -> << c >>
      [] c >= 128 /\ c < 2048 -> << 192 + (c \div 64), 128 + (c % 64) >>
      [] c >= 2048 /\ c < 65536 ->
           << 224 + (c \div 4096), 128 + ((c \div 64) % 64), 128 + (c % 64) >>
      [] OTHER ->
           << 240 + (c \div 262144), 128 + ((c \div 4096) % 64),
              128 + ((c \div 64) % 64), 128 + (c % 64) >>

RECURSIVE Utf8Encode(_)
Utf8Encode(str) ==
    IF str = <<>> THEN <<>> ELSE Utf8Char(Head(str)) \o Utf8Encode(Tail(str))

\* (ctypes.c_ubyte * size).from_buffer(data): an array over the first `size`
\* bytes of the buffer (the buffer is never shorter than the text is long)
FromBuffer(data, size) == SubSeq(data, 1, size)

\* _json_to_raw_data(json_dict): << json_data_raw, json_data_size >>
JsonToRawData(text) ==
    LET json_str       == JsonDumps(text)
        json_data      == Utf8Encode(json_str)
        json_data_size == Len(json_str)
    IN  << FromBuffer(json_data, json_data_size), json_data_size >>

\* A template dictionary with some text in it is about to be converted.
RawInit ==
    /\ args = [ cmd |-> "tag", input |-> PdfPath, output |-> PdfPath,
                name |-> "", key |-> "" ]
    /\ mainPc = "autotag_pdf"
    /\ exitCode = -1
    /\ printed = FALSE
    /\ runResult = "none"
    /\ license_name = ""
    /\ license_key = ""
    /\ pc = "StreamWrite"
    /\ num_pages = 0
    /\ page_index = 0
    /\ docHeld = TRUE
    /\ heldPages = {}
    /\ heldViews = {}
    /\ streamHeld = TRUE
    /\ pages = <<>>
    /\ template_json_dict = [ built |-> TRUE, pages |-> <<>> ]
    /\ templateFile = template_json_dict
    /\ engineTemplate = NoTemplate
    /\ exc = NoExc
    /\ ops = <<>>
    /\ json_dict \in Texts
    /\ raw_data = <<>>
    /\ raw_data_size = 0
    /\ streamData = <<>>
    /\ rawPc = "input"

\* raw_data, raw_data_size = self._json_to_raw_data(template_json_dict)
ConvertTemplate ==
    /\ rawPc = "input"
    /\ raw_data' = JsonToRawData(json_dict)[1]
    /\ raw_data_size' = JsonToRawData(json_dict)[2]
    /\ rawPc' = "converted"
    /\ UNCHANGED << json_dict, streamData >>
    /\ UNCHANGED << args, mainPc, exitCode, printed, runResult >>
    /\ UNCHANGED << license_name, license_key, pc, num_pages, page_index,
                    docHeld, heldPages, heldViews, streamHeld, pages,
                    template_json_dict, templateFile, engineTemplate, exc, ops >>

\* memory_stream.Write(0, raw_data, raw_data_size)
WriteRawData ==
    /\ rawPc = "converted"
    /\ streamData' = SubSeq(raw_data, 1, raw_data_size)
    /\ rawPc' = "written"
    /\ UNCHANGED << json_dict, raw_data, raw_data_size >>
    /\ UNCHANGED << args, mainPc, exitCode, printed, runResult >>
    /\ UNCHANGED << license_name, license_key, pc, num_pages, page_index,
                    docHeld, heldPages, heldViews, streamHeld, pages,
                    template_json_dict, templateFile, engineTemplate, exc, ops >>

RawNext ==
    \/ ConvertTemplate
    \/ WriteRawData

RawSpec == RawInit /\ [][RawNext]_vars

\* C15: the size returned by _json_to_raw_data is the number of bytes of the
\* UTF-8 encoding of the JSON text, which is also the number of characters of
\* the JSON text; the returned buffer is that whole encoding, every byte of it
\* an ASCII character; what is written to the stream is the whole encoded
\* template and nothing else.
C15_SizeIsByteCount ==
    /\ rawPc \in {"converted", "written"} =>
         /\ raw_data_size = Len(Utf8Encode(JsonDumps(json_dict)))
         /\ raw_data_size = Len(JsonDumps(json_dict))
         /\ Len(raw_data) = raw_data_size
         /\ raw_data = Utf8Encode(JsonDumps(json_dict))
         /\ \A i \in 1..Len(raw_data) : raw_data[i] >= 32 /\ raw_data[i] <= 126
    /\ rawPc = "written" =>
         /\ streamData = Utf8Encode(JsonDumps(json_dict))
         /\ Len(streamData) = raw_data_size

\* A text with a 2-byte, a 3-byte and a 4-byte character was converted and
\* written: 11 characters of frame, 6 + 6 + 12 of escapes, 2 of closing.
C15_Witness ==
    /\ rawPc = "written"
    /\ json_dict = << 233, 8364, 128512 >>
    /\ raw_data_size = 37
    /\ Len(streamData) = 37

====
